---- MODULE Spec2Model ----
(***************************************************************************)
(* nestify-backend: a FastAPI service over one self-referencing table,     *)
(* tree_items(id, name, data, parent_id).  The model has one action per    *)
(* database statement a handler awaits: between two awaits a handler runs  *)
(* atomically (asyncio), at an await any other request may run.            *)
(*                                                                         *)
(* The store is whatever DATABASE_URL names.  Three stores the source can  *)
(* run on are modelled, chosen once in Init:                               *)
(*   "sqlite_rowid"   the default: SQLite, ENVIRONMENT=development, the    *)
(*                    table dropped and recreated from TreeNode, whose id  *)
(*                    is INTEGER PRIMARY KEY without AUTOINCREMENT;        *)
(*   "sqlite_autoinc" SQLite with the table of create_table.py             *)
(*                    (AUTOINCREMENT), kept because ENVIRONMENT is not     *)
(*                    development;                                         *)
(*   "postgres"       a postgres:// URL: SERIAL ids, enforced foreign key, *)
(*                    heap storage.                                        *)
(***************************************************************************)
EXTENDS Integers, Sequences, FiniteSets, TLC

\* ------------------------------------------------------------------ bounds
\* Number of requests accepted during one store lifetime.
MaxRequests == 3
\* Stand-in for the interpreter's recursion limit (delete_recursive on a cycle).
MaxDepth == 5

Procs == {"p1", "p2"}

\* ------------------------------------------------------------ value domains
\* SQL NULL / Python None for a string column, and for an integer column.
NoneStr == "<None>"
NULL == 0

\* Optional[List[...]] : None, or a (possibly empty) list.
NoList == [isNone |-> TRUE, items |-> <<>>]
SomeList(s) == [isNone |-> FALSE, items |-> s]
\* Python truthiness of an Optional[List]: None and [] are falsy.
Truthy(c) == ~c.isNone /\ c.items # <<>>

\* TreeItemCreate(name, data=None, children=None)
TreeItemCreate(n, d, c) == [name |-> n, data |-> d, children |-> c]

\* The request bodies POST /api/tree is called with.
Inputs ==
  { TreeItemCreate("root", NoneStr, SomeList(<<
        TreeItemCreate("a", "x", NoList),
        TreeItemCreate("b", NoneStr, SomeList(<<
            TreeItemCreate("c", NoneStr, NoList) >>)) >>)),
    TreeItemCreate("s", "y", SomeList(<<>>)),
    TreeItemCreate("p", NoneStr, SomeList(<<
        TreeItemCreate("q", NoneStr, NoList) >>)) }

\* The bodies PUT /api/tree/{id}/data is called with (TreeItemUpdate.data).
UpdateData == {"u"}

Engines == {"sqlite_rowid", "sqlite_autoinc", "postgres"}

VARIABLES
  engine,   \* which store DATABASE_URL / ENVIRONMENT select
  table,    \* tree_items: the rows, in the order a scan without ORDER BY yields
  seq,      \* AUTOINCREMENT / SERIAL high-water mark (unused by sqlite_rowid)
  proc,     \* the request each worker slot is serving, and where it stands
  started,  \* number of requests accepted so far
  issued,   \* history: every id the store has given to a row so far
  last      \* history: the request that was answered last, and its response

vars == <<engine, table, seq, proc, started, issued, last>>

\* ------------------------------------------------------------------ helpers
Top(s) == s[Len(s)]
Pop(s) == SubSeq(s, 1, Len(s) - 1)
Push(s, f) == Append(s, f)
SetTop(s, f) == [s EXCEPT ![Len(s)] = f]

Range(s) == {s[i] : i \in 1..Len(s)}
Ids(t) == {t[i].id : i \in 1..Len(t)}
SetMax(S) == CHOOSE m \in S : \A x \in S : x <= m

\* ORDER BY id, over the rows of `t`.
RECURSIVE OrderById(_)
OrderById(t) ==
  IF t = <<>> THEN <<>>
  ELSE LET m == CHOOSE i \in 1..Len(t) : \A j \in 1..Len(t) : t[i].id <= t[j].id
           rest == [k \in 1..(Len(t) - 1) |-> IF k < m THEN t[k] ELSE t[k + 1]]
       IN <<t[m]>> \o OrderById(rest)

IdsOf(t) == [i \in 1..Len(t) |-> t[i].id]

\* ------------------------------------------------------------ the store
\* One row of tree_items.
Row(i, n, d, pid) == [id |-> i, name |-> n, data |-> d, parent_id |-> pid]

\* (mutant) no engine checks the foreign key.
FkNeverEnforced(e) == FALSE

\* FOREIGN KEY(parent_id) REFERENCES tree_items(id): SQLite does not enforce it
\* unless PRAGMA foreign_keys is set (the source never sets it), PostgreSQL does.
FkEnforced(e) == e = "postgres"

\* The id an INSERT without an id is given.  INTEGER PRIMARY KEY (TreeNode on
\* SQLite): one more than the largest id now in the table.  AUTOINCREMENT and
\* SERIAL: one more than the largest id ever handed out.
NextId(e, t, sq) ==
  IF e = "sqlite_rowid"
  THEN (IF t = <<>> THEN 1 ELSE SetMax(Ids(t)) + 1)
  ELSE sq + 1

\* Where a scan without ORDER BY meets a new row: a SQLite table is a b-tree
\* on the rowid, a PostgreSQL heap takes the row at its end.
Place(e, t, row) ==
  IF e = "postgres" THEN Append(t, row) ELSE OrderById(Append(t, row))

\* INSERT INTO tree_items (name, data, parent_id) VALUES (...): the statement's
\* outcome.  A sequence value is consumed even when the statement fails.
InsertRow(e, t, sq, n, d, pid) ==
  LET nid == NextId(e, t, sq)
      sq2 == IF e = "sqlite_rowid" THEN sq ELSE nid
  IN IF FkEnforced(e) /\ pid # NULL /\ pid \notin Ids(t)
     THEN [ok |-> FALSE, table |-> t, seq |-> sq2, id |-> NULL]
     ELSE [ok |-> TRUE, table |-> Place(e, t, Row(nid, n, d, pid)),
           seq |-> sq2, id |-> nid]

\* SELECT ... FROM tree_items WHERE id = :id   (fetch_one: <<>> when no row)
SelectById(t, i) == SelectSeq(t, LAMBDA r : r.id = i)

\* (mutant) the children query with ORDER BY id DESC.
ChildrenIdsNewestFirst(t, pid) ==
  LET ids == IdsOf(OrderById(SelectSeq(t, LAMBDA r : r.parent_id = pid)))
  IN [k \in 1..Len(ids) |-> ids[Len(ids) + 1 - k]]

\* (mutant) the children query with LIMIT 1.
ChildrenIdsFirstOnly(t, pid) ==
  LET ids == IdsOf(SelectSeq(t, LAMBDA r : r.parent_id = pid))
  IN IF ids = <<>> THEN <<>> ELSE <<Head(ids)>>

\* SELECT id FROM tree_items WHERE parent_id = :parent_id   (no ORDER BY)
ChildrenIds(t, pid) == IdsOf(SelectSeq(t, LAMBDA r : r.parent_id = pid))

\* (mutant) the roots query with ORDER BY id DESC.
RootIdsNewestFirst(t) ==
  LET ids == IdsOf(OrderById(SelectSeq(t, LAMBDA r : r.parent_id = NULL)))
  IN [k \in 1..Len(ids) |-> ids[Len(ids) + 1 - k]]

\* SELECT id FROM tree_items WHERE parent_id IS NULL ORDER BY id
RootIds(t) == IdsOf(OrderById(SelectSeq(t, LAMBDA r : r.parent_id = NULL)))

\* SELECT * FROM tree_items ORDER BY id
AllItems(t) == OrderById(t)

\* (mutant) the table is not cleared.
DeleteAllNothing(t) == t

\* DELETE FROM tree_items
DeleteAll(t) == <<>>

\* (mutant) the DELETE with WHERE id <= :item_id.
DeleteRowUpTo(e, t, i) ==
  [ok |-> TRUE, table |-> SelectSeq(t, LAMBDA r : r.id > i)]

\* DELETE FROM tree_items WHERE id = :item_id: the statement's outcome.
DeleteRow(e, t, i) ==
  IF FkEnforced(e) /\ i \in Ids(t) /\ \E k \in 1..Len(t) : t[k].parent_id = i
  THEN [ok |-> FALSE, table |-> t]
  ELSE [ok |-> TRUE, table |-> SelectSeq(t, LAMBDA r : r.id # i)]

\* (mutant) the UPDATE without its WHERE clause.
UpdateRowEveryRow(e, t, i, d) ==
  { [k \in 1..Len(t) |-> [t[k] EXCEPT !.data = d]] }

\* UPDATE tree_items SET data = :data WHERE id = :item_id: the tables the
\* statement can leave.  SQLite rewrites the row in place; PostgreSQL writes a
\* new row version wherever the heap has room for it.
UpdateRow(e, t, i, d) ==
  IF i \notin Ids(t) THEN {t}
  ELSE IF e # "postgres"
  THEN { [k \in 1..Len(t) |-> IF t[k].id = i THEN [t[k] EXCEPT !.data = d] ELSE t[k]] }
  ELSE LET old  == SelectById(t, i)[1]
           rest == SelectSeq(t, LAMBDA r : r.id # i)
           new  == [old EXCEPT !.data = d]
       IN { SubSeq(rest, 1, k) \o <<new>> \o SubSeq(rest, k + 1, Len(rest))
              : k \in 0..Len(rest) }

\* ------------------------------------------------------------ the requests
NoItem == TreeItemCreate("", NoneStr, NoList)

\* A worker slot.  op/item/id/data: the request; pc/stack: where its handler
\* stands; result/root_id: what it has computed.  History fields: req, the
\* request's serial number; solo, no other request has been in flight since it
\* was accepted; pre, the table when it was accepted (kept while solo); after,
\* the operation that was answered just before this one was; log, the rows
\* the handler has inserted, in the order of its INSERT statements.
Idle == [op |-> "none", pc |-> "idle", req |-> 0, item |-> NoItem, id |-> NULL,
         data |-> NoneStr, stack |-> <<>>, status |-> 0, result |-> <<>>,
         root_id |-> NULL, solo |-> TRUE, pre |-> <<>>, after |-> "none",
         log |-> <<>>]

Running(q) == proc[q].pc # "idle"

\* A request is accepted by a free worker slot.
Accept(p, o) ==
  [Idle EXCEPT !.op = o, !.req = started + 1,
               !.solo = \A q \in Procs \ {p} : ~Running(q),
               !.pre = IF \A q \in Procs \ {p} : ~Running(q) THEN table ELSE <<>>]

\* What the arrival of another request does to the history fields of a slot.
Disturb(r) == IF r.pc = "idle" THEN r ELSE [r EXCEPT !.solo = FALSE, !.pre = <<>>]

\* The response: the handler returned (200) or raised (404, 500).
Reply(r, code) ==
  [r EXCEPT !.pc = "done", !.status = code, !.stack = <<>>, !.after = last.op]

\* Slot p accepts a request and its handler reaches its second await.
Begin(p, r) ==
  /\ ~Running(p)
  /\ started < MaxRequests
  /\ started' = started + 1
  /\ proc' = [q \in Procs |-> IF q = p THEN r ELSE Disturb(proc[q])]
  /\ UNCHANGED last

\* Slot p accepts a request that is answered after a single statement.
BeginEnd(p, r, code) ==
  /\ ~Running(p)
  /\ started < MaxRequests
  /\ started' = started + 1
  /\ proc' = [q \in Procs |-> IF q = p THEN Idle ELSE Disturb(proc[q])]
  /\ last' = Reply(r, code)

\* The handler in slot p moves on to its next await.
Continue(p, r) ==
  /\ proc' = [proc EXCEPT ![p] = r]
  /\ UNCHANGED <<started, last>>

\* The handler in slot p answers; the slot is free again.
End(p, r, code) ==
  /\ proc' = [proc EXCEPT ![p] = Idle]
  /\ last' = Reply(r, code)
  /\ UNCHANGED started

Init ==
  /\ engine \in Engines
  /\ table = <<>>
  /\ seq = 0
  /\ proc = [p \in Procs |-> Idle]
  /\ started = 0
  /\ issued = {}
  /\ last = Idle

\* ---------------------------------------------------------- POST /api/tree
\* Pop the calls of insert_tree_recursive whose loop over children is over.
RECURSIVE InsertReturn(_)
InsertReturn(st) ==
  IF st = <<>> THEN st
  ELSE IF Top(st).kids = <<>> THEN InsertReturn(Pop(st))
  ELSE st

\* create_tree_item up to its second await: DELETE FROM tree_items, then the
\* call insert_tree_recursive(item) is about to INSERT.
create_tree_item(p, item) ==
  /\ Begin(p, [Accept(p, "replace") EXCEPT
                 !.pc = "insert", !.item = item,
                 !.stack = << [kids |-> <<item>>, pid |-> NULL] >>])
  /\ table' = DeleteAll(table)
  /\ UNCHANGED <<engine, seq, issued>>

\* (mutant) the children are walked from the last to the first.
RECURSIVE Reversed(_)
Reversed(s) == IF s = <<>> THEN <<>> ELSE Append(Reversed(Tail(s)), Head(s))
ChildFrameReversed(item, parent_id) ==
  [kids |-> Reversed(item.children.items), pid |-> parent_id]

\* for child in item.children: insert_tree_recursive(child, parent_id) -- the
\* loop over the children of the node just inserted, with its id.
ChildFrame(item, parent_id) == [kids |-> item.children.items, pid |-> parent_id]

\* One INSERT of insert_tree_recursive, and the code up to the next INSERT or
\* to the return of create_tree_item.
insert_tree_recursive(p) ==
  /\ proc[p].pc = "insert"
  /\ LET st   == proc[p].stack
         f    == Top(st)
         item == Head(f.kids)
         r    == InsertRow(engine, table, seq, item.name, item.data, f.pid)
         st1  == SetTop(st, [f EXCEPT !.kids = Tail(f.kids)])
         st2  == IF Truthy(item.children)
                 THEN Push(st1, ChildFrame(item, r.id))
                 ELSE InsertReturn(st1)
         rid  == IF Len(st) = 1 THEN r.id ELSE proc[p].root_id
         log  == Append(proc[p].log, Row(r.id, item.name, item.data, f.pid))
     IN /\ table' = r.table
        /\ seq' = r.seq
        /\ issued' = IF r.ok THEN issued \cup {r.id} ELSE issued
        /\ IF ~r.ok THEN End(p, proc[p], 500)
           ELSE IF st2 = <<>>
           THEN End(p, [proc[p] EXCEPT !.root_id = rid, !.log = log], 200)
           ELSE Continue(p, [proc[p] EXCEPT !.stack = st2, !.root_id = rid, !.log = log])
  /\ UNCHANGED engine

\* ----------------------------------------------------------- GET /api/tree
\* (mutant) children=children: an empty list is passed on as it is.
TreeItemResponseListAsIs(node, children) ==
  [id |-> node.id, name |-> node.name, data |-> node.data,
   parent_id |-> node.parent_id, children |-> SomeList(children)]

\* TreeItemResponse(..., children=children if children else None)
TreeItemResponse(node, children) ==
  [id |-> node.id, name |-> node.name, data |-> node.data,
   parent_id |-> node.parent_id,
   children |-> IF children # <<>> THEN SomeList(children) ELSE NoList]

NoRow == Row(NULL, "", NoneStr, NULL)

\* A call build_tree_recursive(n) about to fetch its node.
BuildCall(n) ==
  [node_id |-> n, at |-> "node", node |-> NoRow, kids |-> <<>>, acc |-> <<>>]

\* A call of build_tree_recursive has returned `val` (<<>> for None, else
\* <<response>>) to the loop in the frame on top of `st`: that loop appends it
\* and either calls build_tree_recursive for the next id or is over, and then
\* its own call returns.  The bottom frame is retrieve_tree's loop over roots.
RECURSIVE BuildReturn(_, _)
BuildReturn(st, val) ==
  LET f    == Top(st)
      acc  == f.acc \o val
      kids == Tail(f.kids)
  IN IF kids # <<>>
     THEN [done |-> FALSE, result |-> <<>>,
           stack |-> Push(SetTop(st, [f EXCEPT !.acc = acc, !.kids = kids]),
                          BuildCall(Head(kids)))]
     ELSE IF f.at = "roots"
     THEN [done |-> TRUE, result |-> acc, stack |-> <<>>]
     ELSE BuildReturn(Pop(st), <<TreeItemResponse(f.node, acc)>>)

\* retrieve_tree up to its second await: the roots query.
retrieve_tree(p) ==
  /\ LET roots == RootIds(table)
         r     == Accept(p, "tree")
     IN IF roots = <<>>
        THEN BeginEnd(p, r, 200)
        ELSE Begin(p, [r EXCEPT !.pc = "build",
               !.stack = << [BuildCall(NULL) EXCEPT !.at = "roots", !.kids = roots],
                            BuildCall(Head(roots)) >>])
  /\ UNCHANGED <<engine, table, seq, issued>>

\* build_tree_recursive: SELECT * FROM tree_items WHERE id = :node_id
build_fetch_node(p) ==
  /\ proc[p].pc = "build"
  /\ Top(proc[p].stack).at = "node"
  /\ LET st   == proc[p].stack
         f    == Top(st)
         node == SelectById(table, f.node_id)
         ret  == BuildReturn(Pop(st), <<>>)
     IN IF node # <<>>
        THEN Continue(p, [proc[p] EXCEPT
               !.stack = SetTop(st, [f EXCEPT !.at = "children", !.node = node[1]])])
        ELSE IF ret.done
        THEN End(p, [proc[p] EXCEPT !.result = ret.result], 200)
        ELSE Continue(p, [proc[p] EXCEPT !.stack = ret.stack])
  /\ UNCHANGED <<engine, table, seq, issued>>

\* (mutant) the children come back in an order that is not a function of the
\* table: any order.
build_fetch_children_any_order(p) ==
  /\ proc[p].pc = "build"
  /\ Top(proc[p].stack).at = "children"
  /\ LET st   == proc[p].stack
         f    == Top(st)
         ids  == ChildrenIds(table, f.node_id)
         ret  == BuildReturn(Pop(st), <<TreeItemResponse(f.node, <<>>)>>)
     IN IF ids # <<>>
        THEN \E kids \in {s \in [1..Len(ids) -> Range(ids)] : Range(s) = Range(ids)} :
               Continue(p, [proc[p] EXCEPT
                 !.stack = Push(SetTop(st, [f EXCEPT !.at = "loop", !.kids = kids]),
                                BuildCall(Head(kids)))])
        ELSE IF ret.done
        THEN End(p, [proc[p] EXCEPT !.result = ret.result], 200)
        ELSE Continue(p, [proc[p] EXCEPT !.stack = ret.stack])
  /\ UNCHANGED <<engine, table, seq, issued>>

\* build_tree_recursive: SELECT id FROM tree_items WHERE parent_id = :parent_id
build_fetch_children(p) ==
  /\ proc[p].pc = "build"
  /\ Top(proc[p].stack).at = "children"
  /\ LET st   == proc[p].stack
         f    == Top(st)
         kids == ChildrenIds(table, f.node_id)
         ret  == BuildReturn(Pop(st), <<TreeItemResponse(f.node, <<>>)>>)
     IN IF kids # <<>>
        THEN Continue(p, [proc[p] EXCEPT
               !.stack = Push(SetTop(st, [f EXCEPT !.at = "loop", !.kids = kids]),
                              BuildCall(Head(kids)))])
        ELSE IF ret.done
        THEN End(p, [proc[p] EXCEPT !.result = ret.result], 200)
        ELSE Continue(p, [proc[p] EXCEPT !.stack = ret.stack])
  /\ UNCHANGED <<engine, table, seq, issued>>

\* ------------------------------------------------------- GET /api/tree/all
retrieve_all_items(p) ==
  /\ BeginEnd(p, [Accept(p, "all") EXCEPT !.result = AllItems(table)], 200)
  /\ UNCHANGED <<engine, table, seq, issued>>

\* ------------------------------------------------ PUT /api/tree/{id}/data
\* The ids a client sends: those of the rows it can see, and one of no row.
ItemIds == Ids(table) \cup {999}

\* (mutant) the existence check is left out.
update_without_check(p, item_id, data) ==
  /\ Begin(p, [Accept(p, "update") EXCEPT !.id = item_id, !.data = data, !.pc = "update"])
  /\ UNCHANGED <<engine, table, seq, issued>>

\* update_tree_item_data up to its second await: the existence check.
update_tree_item_data(p, item_id, data) ==
  /\ LET existing == SelectById(table, item_id)
         r        == [Accept(p, "update") EXCEPT !.id = item_id, !.data = data]
     IN IF existing = <<>>
        THEN BeginEnd(p, r, 404)
        ELSE Begin(p, [r EXCEPT !.pc = "update"])
  /\ UNCHANGED <<engine, table, seq, issued>>

\* update_tree_item_data: the UPDATE, and the return.
update_execute(p) ==
  /\ proc[p].pc = "update"
  /\ \E t2 \in UpdateRow(engine, table, proc[p].id, proc[p].data) : table' = t2
  /\ End(p, proc[p], 200)
  /\ UNCHANGED <<engine, seq, issued>>

\* ---------------------------------------------------- DELETE /api/tree/{id}
\* A call delete_recursive(n) about to fetch the children of n.
DeleteCall(n) == [node_id |-> n, at |-> "children", kids |-> <<>>]

\* delete_tree_item up to its second await: the existence check.
delete_tree_item(p, item_id) ==
  /\ LET existing == SelectById(table, item_id)
         r        == [Accept(p, "delete") EXCEPT !.id = item_id]
     IN IF existing = <<>>
        THEN BeginEnd(p, r, 404)
        ELSE Begin(p, [r EXCEPT !.pc = "delete", !.stack = <<DeleteCall(item_id)>>])
  /\ UNCHANGED <<engine, table, seq, issued>>

\* (mutant) delete_recursive without its loop over the children.
delete_without_children(p) ==
  /\ proc[p].pc = "delete"
  /\ Top(proc[p].stack).at = "children"
  /\ Continue(p, [proc[p] EXCEPT
       !.stack = SetTop(@, [Top(@) EXCEPT !.at = "delete"])])
  /\ UNCHANGED <<engine, table, seq, issued>>

\* delete_recursive: SELECT id FROM tree_items WHERE parent_id = :parent_id,
\* then the call for the first child, if any.  A call deeper than the
\* interpreter allows raises RecursionError.
delete_fetch_children(p) ==
  /\ proc[p].pc = "delete"
  /\ Top(proc[p].stack).at = "children"
  /\ LET st   == proc[p].stack
         f    == Top(st)
         kids == ChildrenIds(table, f.node_id)
     IN IF kids = <<>>
        THEN Continue(p, [proc[p] EXCEPT !.stack = SetTop(st, [f EXCEPT !.at = "delete"])])
        ELSE IF Len(st) >= MaxDepth
        THEN End(p, proc[p], 500)
        ELSE Continue(p, [proc[p] EXCEPT
               !.stack = Push(SetTop(st, [f EXCEPT !.at = "loop", !.kids = kids]),
                              DeleteCall(Head(kids)))])
  /\ UNCHANGED <<engine, table, seq, issued>>

\* delete_recursive: DELETE FROM tree_items WHERE id = :item_id, the return to
\* the caller's loop, and its call for the next child, if any.
delete_execute(p) ==
  /\ proc[p].pc = "delete"
  /\ Top(proc[p].stack).at = "delete"
  /\ LET st   == proc[p].stack
         r    == DeleteRow(engine, table, Top(st).node_id)
         st1  == Pop(st)
         f    == Top(st1)
         kids == Tail(f.kids)
     IN /\ table' = r.table
        /\ IF ~r.ok THEN End(p, proc[p], 500)
           ELSE IF st1 = <<>> THEN End(p, proc[p], 200)
           ELSE IF kids = <<>>
           THEN Continue(p, [proc[p] EXCEPT
                  !.stack = SetTop(st1, [f EXCEPT !.at = "delete", !.kids = kids])])
           ELSE Continue(p, [proc[p] EXCEPT
                  !.stack = Push(SetTop(st1, [f EXCEPT !.kids = kids]),
                                 DeleteCall(Head(kids)))])
  /\ UNCHANGED <<engine, seq, issued>>

\* ------------------------------------------------------------ the service
\* What the slots do: accept a request, or run a handler to its next await.
Next ==
  \E p \in Procs :
    \/ \E item \in Inputs : create_tree_item(p, item)
    \/ insert_tree_recursive(p)
    \/ retrieve_tree(p)
    \/ build_fetch_node(p)
    \/ build_fetch_children(p)
    \/ retrieve_all_items(p)
    \/ \E i \in ItemIds, d \in UpdateData : update_tree_item_data(p, i, d)
    \/ update_execute(p)
    \/ \E i \in ItemIds : delete_tree_item(p, i)
    \/ delete_fetch_children(p)
    \/ delete_execute(p)

\* Requests may overlap: a handler may run between any two awaits of another.
Spec == Init /\ [][Next]_vars

\* Requests arrive one after the other: each is answered before the next one
\* is accepted.
Alone(p) == \A q \in Procs \ {p} : ~Running(q)

NextSerial ==
  \E p \in Procs :
    \/ \E item \in Inputs : Alone(p) /\ create_tree_item(p, item)
    \/ insert_tree_recursive(p)
    \/ Alone(p) /\ retrieve_tree(p)
    \/ build_fetch_node(p)
    \/ build_fetch_children(p)
    \/ Alone(p) /\ retrieve_all_items(p)
    \/ \E i \in ItemIds, d \in UpdateData : Alone(p) /\ update_tree_item_data(p, i, d)
    \/ update_execute(p)
    \/ \E i \in ItemIds : Alone(p) /\ delete_tree_item(p, i)
    \/ delete_fetch_children(p)
    \/ delete_execute(p)

SpecSerial == Init /\ [][NextSerial]_vars

\* ================================================================ properties
\* A response was sent in this step (serial numbers make every response new).
Answered == last' # last

\* The children a request body's node has, and those a response node has.
InKids(item) == IF Truthy(item.children) THEN item.children.items ELSE <<>>
OutKids(resp) == IF resp.children.isNone THEN <<>> ELSE resp.children.items

\* The response subtree `resp`, hanging under `pid`, is the request subtree
\* `item`: same name and data, same number of children in the same order, each
\* child pointing at its parent's id.
RECURSIVE SameTree(_, _, _)
SameTree(item, resp, pid) ==
  /\ resp.name = item.name
  /\ resp.data = item.data
  /\ resp.parent_id = pid
  /\ Len(OutKids(resp)) = Len(InKids(item))
  /\ \A k \in 1..Len(InKids(item)) :
       SameTree(InKids(item)[k], OutKids(resp)[k], resp.id)

\* Number of nodes of a request body.
RECURSIVE Size(_)
RECURSIVE SizeAll(_)
Size(item) == 1 + SizeAll(InKids(item))
SizeAll(items) == IF items = <<>> THEN 0 ELSE Size(Head(items)) + SizeAll(Tail(items))

\* Ascending order of a sequence of integers.
Ascending(s) == \A i, j \in 1..Len(s) : i < j => s[i] < s[j]

\* The ids of the rows of t whose parent_id is pid, ascending.
ChildSet(t, pid) == {t[k].id : k \in {j \in 1..Len(t) : t[j].parent_id = pid}}
RECURSIVE SortSet(_)
SortSet(S) ==
  IF S = {} THEN <<>>
  ELSE LET m == CHOOSE x \in S : \A y \in S : x <= y IN <<m>> \o SortSet(S \ {m})

\* The rows of t under the row with id i are the nodes of `item`: the row has
\* the node's name and data, and its child rows, by ascending id, are the
\* node's children in input order.
RECURSIVE RowsAre(_, _, _)
RowsAre(t, i, item) ==
  /\ i \in Ids(t)
  /\ LET row == SelectById(t, i)[1]
         kids == SortSet(ChildSet(t, i))
     IN /\ row.name = item.name
        /\ row.data = item.data
        /\ Len(kids) = Len(InKids(item))
        /\ \A k \in 1..Len(kids) : RowsAre(t, kids[k], InKids(item)[k])

\* C1 (round trip): when a GetTree is answered that ran alone right after a
\* ReplaceTree(input) that ran alone, its result is one root subtree equal to
\* the input in names, data, parent/child shape and order of children.
C1_RoundTrip ==
  [][ ( /\ Answered
        /\ last.op = "replace" /\ last.status = 200 /\ last.solo
        /\ last'.op = "tree" /\ last'.solo /\ last'.req = last.req + 1 )
      => ( /\ last'.status = 200
           /\ Len(last'.result) = 1
           /\ SameTree(last.item, last'.result[1], NULL) ) ]_vars

\* A GetTree, second request of the run, has returned a root with two children,
\* the second of which has a child: the scenario of the round trip.
C1_Witness ==
  /\ last.op = "tree" /\ last.solo /\ last.req = 2 /\ last.status = 200
  /\ Len(last.result) = 1
  /\ Len(OutKids(last.result[1])) = 2
  /\ Len(OutKids(OutKids(last.result[1])[2])) = 1

\* C4 (full replacement): when a ReplaceTree(input) that ran alone is answered,
\* the rows of the table are exactly the nodes of the input (one row per node,
\* hence no other row), exactly one row has a null parent_id, and root_id is
\* the id of that row.
C4_FullReplacement ==
  [][ ( /\ Answered
        /\ last'.op = "replace" /\ last'.solo )
      => ( /\ last'.status = 200
           /\ Len(table') = Size(last'.item)
           /\ RootIds(table') = <<last'.root_id>>
           /\ RowsAre(table', last'.root_id, last'.item) ) ]_vars

\* A ReplaceTree of a four-node input was answered, called on a table that
\* held rows.
C4_Witness ==
  /\ last.op = "replace" /\ last.solo /\ last.status = 200
  /\ Size(last.item) = 4
  /\ last.pre # <<>>

\* The ids of the row i of t and of all its descendants.
RECURSIVE Closure(_, _)
Closure(t, S) ==
  LET S2 == S \cup {t[k].id : k \in {j \in 1..Len(t) : t[j].parent_id \in S}}
  IN IF S2 = S THEN S ELSE Closure(t, S2)
Subtree(t, i) == Closure(t, {i})

\* C2 (deletion completeness): when a DeleteNode(id) that ran alone on an
\* existing id is answered, the flat listing holds neither id nor the id of
\* any row that was a descendant of id when the request was accepted.
C2_DeletionComplete ==
  [][ ( /\ Answered
        /\ last'.op = "delete" /\ last'.status = 200 /\ last'.solo )
      => Range(IdsOf(AllItems(table'))) \cap Subtree(last'.pre, last'.id) = {} ]_vars

\* A DeleteNode of a node with at least two descendants was answered.
C2_Witness ==
  /\ last.op = "delete" /\ last.status = 200 /\ last.solo
  /\ Cardinality(Subtree(last.pre, last.id)) >= 3

\* The request accepted in this step, if one is.
Accepting == started' # started
NewRequest ==
  IF Answered /\ last'.req = started' THEN last'
  ELSE LET p == CHOOSE q \in Procs : proc'[q].req = started' IN proc'[p]

\* C3 (NotFound contract): an UpdateNodeData or DeleteNode called with an id
\* of no row is answered 404 at once and the table is left as it was.
C3_NotFound ==
  [][ ( /\ Accepting
        /\ NewRequest.op \in {"update", "delete"}
        /\ NewRequest.id \notin Ids(table) )
      => ( /\ Answered
           /\ last'.req = started'
           /\ last'.status = 404
           /\ table' = table ) ]_vars

\* An UpdateNodeData with an unknown id was answered 404 on a table with rows.
C3_Witness ==
  /\ last.op = "update" /\ last.status = 404 /\ last.solo
  /\ last.pre # <<>>
  /\ last.id \notin Ids(last.pre)

\* C10 (frame of UpdateNodeData): when an UpdateNodeData(id, data) that ran
\* alone on an existing id is answered, the table has the rows it had, except
\* that the row id has the supplied data: same ids, same name and parent_id
\* everywhere, same data in every other row.
C10_UpdateFrame ==
  [][ ( /\ Answered
        /\ last'.op = "update" /\ last'.status = 200 /\ last'.solo )
      => ( /\ Len(table') = Len(last'.pre)
           /\ Ids(table') = Ids(last'.pre)
           /\ \A r \in Range(last'.pre) :
                IF r.id = last'.id
                THEN [r EXCEPT !.data = last'.data] \in Range(table')
                ELSE r \in Range(table') ) ]_vars

\* An UpdateNodeData was answered 200 for a row, among several, whose data was
\* not yet the supplied value.
C10_Witness ==
  /\ last.op = "update" /\ last.status = 200 /\ last.solo
  /\ Len(last.pre) >= 2
  /\ SelectById(last.pre, last.id)[1].data # last.data

\* A step of a GetTree: its acceptance or a step of its handler.
TreeStep ==
  \/ Accepting /\ NewRequest.op = "tree"
  \/ \E p \in Procs : /\ proc[p].op = "tree"
                       /\ <<proc'[p].pc, proc'[p].stack>> # <<proc[p].pc, proc[p].stack>>

\* C6 (idempotence of read): no step of a GetTree changes the table, and a
\* GetTree answered right after another GetTree, both having run alone,
\* returns the same result.
C6_ReadIdempotent ==
  [][ /\ TreeStep => table' = table
      /\ ( /\ Answered
           /\ last.op = "tree" /\ last.solo
           /\ last'.op = "tree" /\ last'.solo /\ last'.req = last.req + 1 )
         => last'.result = last.result ]_vars

\* A GetTree was answered a tree of nested nodes right after another GetTree.
C6_Witness ==
  /\ last.op = "tree" /\ last.solo /\ last.after = "tree" /\ last.status = 200
  /\ Len(last.result) = 1
  /\ Len(OutKids(last.result[1])) = 2

\* The ids of the children of every node of a response subtree ascend.
RECURSIVE KidsAscend(_)
KidsAscend(resp) ==
  /\ Ascending([k \in 1..Len(OutKids(resp)) |-> OutKids(resp)[k].id])
  /\ \A k \in 1..Len(OutKids(resp)) : KidsAscend(OutKids(resp)[k])

\* C5 (ordering): the roots query and the children query return ids in
\* ascending order whatever the order of the rows in the table, and so the
\* children of every node GetTree returns ascend by id.
C5_Ordering ==
  /\ Ascending(RootIds(table))
  /\ \A i \in Ids(table) : Ascending(ChildrenIds(table, i))
  /\ last.op = "tree" => \A k \in 1..Len(last.result) : KidsAscend(last.result[k])

\* C7 (ids are never reused): the id given to a newly inserted row was never
\* given to a row before.
C7_NoIdReuse ==
  [][ (Ids(table') \ Ids(table)) \cap issued = {} ]_vars

\* The proper ancestors of row i of t: the rows met following parent_id.
RECURSIVE Up(_, _)
Up(t, S) ==
  LET S2 == S \cup {t[k].parent_id : k \in {j \in 1..Len(t) : t[j].id \in S}}
  IN IF S2 = S THEN S ELSE Up(t, S2)
Ancestors(t, i) == Up(t, {SelectById(t, i)[1].parent_id}) \ {NULL}

\* C8 (forest): no row is its own ancestor.
C8_Forest == \A i \in Ids(table) : i \notin Ancestors(table, i)

\* C9 (parent existence at insertion): the parent_id of a row being inserted
\* is null or the id of a row the table holds at that moment.
C9_ParentExists ==
  [][ \A r \in Range(table') :
        r.id \notin Ids(table) =>
          (r.parent_id = NULL \/ r.parent_id \in Ids(table)) ]_vars

\* Every node of a response subtree.
RECURSIVE NodesOf(_)
NodesOf(resp) ==
  {resp} \cup UNION {NodesOf(OutKids(resp)[k]) : k \in 1..Len(OutKids(resp))}
ResultNodes(result) == UNION {NodesOf(result[k]) : k \in 1..Len(result)}

\* C11 (children field): GetTree never returns an empty children sequence,
\* and in the result of a GetTree that ran alone the children field of a node
\* is null exactly when no row has that node as its parent.
C11_ChildrenNullOrNonEmpty ==
  [][ ( /\ Answered
        /\ last'.op = "tree" )
      => \A n \in ResultNodes(last'.result) :
           /\ ~n.children.isNone => n.children.items # <<>>
           /\ last'.solo => (n.children.isNone <=> ChildSet(table', n.id) = {}) ]_vars

\* A GetTree has returned a root with children whose first child has none.
C11_Witness ==
  /\ last.op = "tree" /\ last.solo /\ last.status = 200
  /\ Len(last.result) = 1
  /\ ~last.result[1].children.isNone
  /\ last.result[1].children.items[1].children.isNone

\* C12 (roots of GetTree): a GetTree that ran alone is answered 200 with one
\* subtree per row whose parent_id is null, in ascending order of their ids:
\* the empty sequence when there is no such row.
C12_RootsInOrder ==
  [][ ( /\ Answered
        /\ last'.op = "tree" /\ last'.solo )
      => ( /\ last'.status = 200
           /\ [k \in 1..Len(last'.result) |-> last'.result[k].id]
                = SortSet(ChildSet(table', NULL))
           /\ \A k \in 1..Len(last'.result) : last'.result[k].parent_id = NULL ) ]_vars

\* A GetTree that ran alone has returned two roots.
C12_Witness ==
  /\ last.op = "tree" /\ last.solo /\ last.status = 200
  /\ Len(last.result) = 2

\* A GetTree was answered the empty sequence on the empty store.
C12_WitnessEmpty ==
  /\ last.op = "tree" /\ last.solo /\ last.status = 200
  /\ last.result = <<>> /\ last.pre = <<>> /\ last.req = 1

\* Slot p runs a statement of its handler in this step.
Acts(p) == <<proc'[p].pc, proc'[p].stack>> # <<proc[p].pc, proc[p].stack>>

\* The ids of the rows this step removes.
Removed == Ids(table) \ Ids(table')

\* No row removed by a step of the DeleteNode in slot p has, at that moment, a
\* row other than itself pointing at it.
DeletesChildless(p) ==
  (proc[p].op = "delete" /\ Acts(p))
    => \A i \in Removed : \A r \in Range(table) : r.parent_id = i => r.id = i

\* C13 (post-order delete), as claimed: DeleteNode never deletes a row while a
\* row whose parent_id is its id is still in the table.
C13_PostOrderAlways ==
  [][ \A p \in Procs : DeletesChildless(p) ]_vars

\* C13 as amended: a DeleteNode during which no other request is in flight
\* never deletes a row while a row whose parent_id is its id is still in the
\* table: every child row goes before its parent row.
C13_PostOrderAlone ==
  [][ \A p \in Procs : proc[p].solo => DeletesChildless(p) ]_vars

\* A DeleteNode that ran alone has deleted a node and its only descendant.
C13_Witness ==
  /\ last.op = "delete" /\ last.status = 200 /\ last.solo
  /\ Cardinality(Subtree(last.pre, last.id)) = 2

\* ------------------------------------------------------------------- C14
\* The input flattened in pre-order: every node before its children, the
\* children in input order; par is the position of the node's parent in the
\* flattening (0 for the input's root), base the number of nodes before.
RECURSIVE PreOrder(_, _, _)
PreOrder(items, par, base) ==
  IF items = <<>> THEN <<>>
  ELSE LET h   == Head(items)
           own == << [name |-> h.name, data |-> h.data, par |-> par] >>
                  \o PreOrder(InKids(h), base + 1, base + 1)
       IN own \o PreOrder(Tail(items), par, base + Len(own))

Flat(item) == PreOrder(<<item>>, 0, 0)

\* The rows inserted so far are the first nodes of the flattening, each
\* carrying as parent_id the id assigned to its parent's row.
LogFollows(log, flat) ==
  /\ Len(log) <= Len(flat)
  /\ \A k \in 1..Len(log) :
       /\ log[k].name = flat[k].name
       /\ log[k].data = flat[k].data
       /\ log[k].parent_id = IF flat[k].par = 0 THEN NULL ELSE log[flat[k].par].id

\* C14: within one ReplaceTree the rows are inserted in pre-order (a node
\* before its children, the children in input order), each child's parent_id
\* is the id just assigned to its parent, and the id returned is the id
\* assigned to the input's root.
C14_PreOrderInsert ==
  /\ \A p \in Procs :
       proc[p].op = "replace" => LogFollows(proc[p].log, Flat(proc[p].item))
  /\ (last.op = "replace" /\ last.status = 200)
       => /\ LogFollows(last.log, Flat(last.item))
          /\ Len(last.log) = Len(Flat(last.item))
          /\ last.root_id = last.log[1].id

C14_Witness ==
  /\ last.op = "replace" /\ last.status = 200
  /\ Len(last.log) = 4
  /\ last.log[4].parent_id = last.log[3].id
  /\ last.log[3].parent_id = last.log[1].id

\* ------------------------------------------------------------------- C15
\* C15: UpdateNodeData(id, data) answers success only if a row with that id
\* was in the table when its UPDATE ran and has the new data afterwards;
\* DeleteNode(id) answers success only if the row with that id was in the
\* table when its DELETE ran -- whatever ran between check and mutation.
C15_SuccessIsAccurate ==
  [][ (Answered /\ last'.status = 200)
      => /\ last'.op = "update"
              => /\ last'.id \in Ids(table)
                 /\ \E r \in Range(table') : r.id = last'.id /\ r.data = last'.data
         /\ last'.op = "delete" => last'.id \in Ids(table) ]_vars

\* ------------------------------------------------------------------- C16
\* The table holds exactly the tree of the input, rooted at row root.
IsTreeOf(t, root, item) ==
  /\ Len(t) = Size(item)
  /\ RootIds(t) = <<root>>
  /\ RowsAre(t, root, item)

\* Two requests were made, both ReplaceTree, and both have been answered.
BothReplacesDone ==
  /\ started = 2
  /\ \A p \in Procs : ~Running(p)
  /\ last.op = "replace" /\ last.after = "replace"

\* The table holds a row that the call answered last did not insert.
HoldsForeignRows == \E r \in Range(table) : r \notin Range(last.log)

\* A row that the call answered last inserted is not in the table.
MissesOwnRows == \E r \in Range(last.log) : r \notin Range(table)

\* C16: two ReplaceTree calls are not serialized.  Whenever both have
\* finished and the table is not the tree of the call that finished last, the
\* two calls overlapped, and the table holds rows of the other call or lacks
\* rows of the last one; C16_Witness is an interleaving where this happens.
C16_NotSerialized ==
  ( /\ BothReplacesDone
    /\ last.status = 200
    /\ ~IsTreeOf(table, last.root_id, last.item) )
  => ( /\ ~last.solo
       /\ HoldsForeignRows \/ MissesOwnRows )

\* Both calls have finished and the table is the tree of no input.
C16_Witness ==
  /\ BothReplacesDone
  /\ last.status = 200
  /\ \A item \in Inputs : \A i \in Ids(table) : ~IsTreeOf(table, i, item)

\* Both calls have finished and the table has lost rows of the last one.
C16_WitnessMissing ==
  /\ C16_Witness
  /\ MissesOwnRows

\* ------------------------------------------------------------------- C17
\* The DeleteNode answered last reported success, its row is gone, and a row
\* naming it as parent is in the table.
DeletedWithChildLeft(r, t) ==
  /\ r.op = "delete" /\ r.status = 200
  /\ r.id \notin Ids(t)
  /\ \E c \in Range(t) : c.parent_id = r.id

\* C17: a DeleteNode(n) can report success while a row whose parent_id is n
\* remains and row n is gone (C17_Witness).  When it does, another request
\* ran during the delete and the store does not enforce the foreign key.
C17_OrphanByRace ==
  [][ (Answered /\ DeletedWithChildLeft(last', table'))
      => (~last'.solo /\ engine # "postgres") ]_vars

\* The delete has been answered with a child of its node left behind, and no
\* request has run since: the insert of the child finished before it did.
C17_Witness ==
  /\ DeletedWithChildLeft(last, table)
  /\ \A p \in Procs : ~Running(p)
  /\ last.after = "replace"

\* ------------------------------------------------------------------- C18
\* The nested calls of a traversal are all for different nodes.
NoRevisit(st) ==
  \A i, j \in 1..Len(st) : i # j => st[i].node_id # st[j].node_id

\* C18: the recursion over children of DeleteNode and of GetTree never
\* revisits a node (so each traversal ends after finitely many steps), in
\* every table state the API can reach.
C18_NoRevisit ==
  \A p \in Procs : proc[p].op \in {"delete", "tree"} => NoRevisit(proc[p].stack)

\* ------------------------------------------------------------------- C19
\* The rows of t that are neither row i nor a descendant of it.
Outside(t, i) == {r \in Range(t) : r.id \notin Subtree(t, i)}

\* C19: when a DeleteNode(id) on an existing id that ran alone is answered,
\* every row that was neither id nor a descendant of id is still in the table
\* with the same name, data and parent_id.
C19_DeleteFrame ==
  [][ ( /\ Answered
        /\ last'.op = "delete" /\ last'.solo /\ last'.status # 404 )
      => /\ Outside(last'.pre, last'.id) \subseteq Range(table')
         /\ Ids(table') \subseteq Ids(last'.pre) ]_vars

\* A DeleteNode of a node with a descendant was answered, on a table that
\* held two rows outside its subtree.
C19_Witness ==
  /\ last.op = "delete" /\ last.status = 200 /\ last.solo
  /\ Cardinality(Subtree(last.pre, last.id)) = 2
  /\ Cardinality(Outside(last.pre, last.id)) = 2
  /\ Len(table) = 2

\* ------------------------------------------------------------------- C20
\* The ids of a GetTree result, one entry for every node that appears in it.
RECURSIVE WalkIds(_)
WalkIds(resps) ==
  IF resps = <<>> THEN <<>>
  ELSE <<Head(resps).id>> \o WalkIds(OutKids(Head(resps))) \o WalkIds(Tail(resps))

\* C20 (read coverage): with requests that run one at a time, the ids that
\* appear in a GetTree result are the ids of the rows GetFlatItems returns in
\* that state, and each id appears once.
C20_ReadCoverage ==
  [][ (Answered /\ last'.op = "tree")
      => LET walk == WalkIds(last'.result)
         IN /\ Range(walk) = Range(IdsOf(AllItems(table')))
            /\ Len(walk) = Cardinality(Range(walk)) ]_vars

\* A GetTree was answered with four nodes under one root, after an update.
C20_Witness ==
  /\ last.op = "tree" /\ last.status = 200 /\ last.after = "update"
  /\ Len(last.result) = 1
  /\ Len(WalkIds(last.result)) = 4

\* A GetTree was answered after a DeleteNode that left rows in the table.
C20_WitnessAfterDelete ==
  /\ last.op = "tree" /\ last.status = 200 /\ last.after = "delete"
  /\ Len(WalkIds(last.result)) = 2

====
